---- MODULE Spec2Model ----
(***************************************************************************)
(* Model of search_companies (get_companies_house_companies.py): the       *)
(* scraper that builds the advanced-search URL, fetches the results page   *)
(* and the SIC reference table, and turns every result row into a Company. *)
(*                                                                         *)
(* Texts are TLA+ strings; Python's str.split, str.replace, the "in"       *)
(* substring test and datetime.strptime("%d %B %Y") are operators that     *)
(* compute what the Python computes.  Optional values are None == <<>> or  *)
(* Some(x) == <<x>>.  A result row is the text of its link (a) and the     *)
(* texts of its six list items (li); a reference-table row is the          *)
(* sequence of the texts of its td cells.                                  *)
(***************************************************************************)
EXTENDS Integers, Sequences, FiniteSets, TLC

VARIABLES
    args,                       \* the keyword arguments of the call
    web_search,                 \* rows the results page serves
    web_sic,                    \* rows the SIC reference page serves
    pc,                         \* position in search_companies
    name, registration_number, status,      \* the bound parameters
    url,                        \* the local url
    requested,                  \* URLs passed to requests.get, in order
    soup, soup1,                \* parsed result rows, parsed reference rows
    sic_code_list, sic_desc_list,
    j,                          \* reference rows already scanned
    i,                          \* result rows already processed
    local_registration_number, primary_name, company_type, company_sub_type,
    incorporation_date, dissolved_date, registered_office_address,
    industry_codes,
    companies,                  \* the result list
    error                       \* the exception that left the function

vars == <<args, web_search, web_sic, pc, name, registration_number, status,
          url, requested, soup, soup1, sic_code_list, sic_desc_list, j, i,
          local_registration_number, primary_name, company_type,
          company_sub_type, incorporation_date, dissolved_date,
          registered_office_address, industry_codes, companies, error>>

----------------------------------------------------------------------------
(* Optional values and exceptions *)

None == <<>>
Some(x) == <<x>>
Val(o) == o[1]

NoError == [exc |-> "", at |-> ""]
Raise(exc, at) == [exc |-> exc, at |-> at]

----------------------------------------------------------------------------
(* Python string primitives *)

\* s[a-1:b], clamped to the text as a Python slice is.
Sub(s, a, b) ==
    LET lo == IF a < 1 THEN 1 ELSE a
        hi == IF b > Len(s) THEN Len(s) ELSE b
    IN  IF lo > hi THEN "" ELSE SubSeq(s, lo, hi)

CharAt(s, k) == Sub(s, k, k)

\* str.find counted from 1: the least k >= from with sep at k, 0 when none.
RECURSIVE find_from(_, _, _)
find_from(s, sep, from) ==
    IF from + Len(sep) - 1 > Len(s) THEN 0
    ELSE IF SubSeq(s, from, from + Len(sep) - 1) = sep THEN from
    ELSE find_from(s, sep, from + 1)

\* "sub in s"
contains(sub, s) == find_from(s, sub, 1) # 0

\* s.split(sep) for a non-empty sep: non-overlapping, left to right.
RECURSIVE split(_, _)
split(s, sep) ==
    LET k == find_from(s, sep, 1)
    IN  IF k = 0 THEN <<s>>
        ELSE <<Sub(s, 1, k - 1)>> \o split(Sub(s, k + Len(sep), Len(s)), sep)

\* s.replace(old, new) for a non-empty old.
RECURSIVE replace(_, _, _)
replace(s, old, new) ==
    LET k == find_from(s, old, 1)
    IN  IF k = 0 THEN s
        ELSE Sub(s, 1, k - 1) \o new \o replace(Sub(s, k + Len(old), Len(s)), old, new)

----------------------------------------------------------------------------
(* datetime.strptime(text, "%d %B %Y").date() *)

Digits == "0123456789"
IsDigit(c) == Len(c) = 1 /\ contains(c, Digits)
DigitVal(c) == find_from(Digits, c, 1) - 1
IsSpace(c) == c \in {" ", "\t", "\n", "\r", "\f"}

RECURSIVE LStrip(_)
LStrip(s) == IF s # "" /\ IsSpace(Head(s)) THEN LStrip(Tail(s)) ELSE s
RECURSIVE RStrip(_)
RStrip(s) ==
    IF s # "" /\ IsSpace(CharAt(s, Len(s))) THEN RStrip(Sub(s, 1, Len(s) - 1)) ELSE s
\* Leading and trailing whitespace removed.
Strip(s) == RStrip(LStrip(s))

UpperCase == "ABCDEFGHIJKLMNOPQRSTUVWXYZ"
LowerCase == "abcdefghijklmnopqrstuvwxyz"
RECURSIVE lower(_)
lower(s) ==
    IF s = "" THEN ""
    ELSE LET c == Head(s)
             k == find_from(UpperCase, c, 1)
         IN  (IF k = 0 THEN c ELSE CharAt(LowerCase, k)) \o lower(Tail(s))

MonthNames == <<"january", "february", "march", "april", "may", "june", "july",
                "august", "september", "october", "november", "december">>

IsLeap(y) == (y % 4 = 0 /\ y % 100 # 0) \/ y % 400 = 0
DaysIn(m, y) ==
    IF m = 2 THEN (IF IsLeap(y) THEN 29 ELSE 28)
    ELSE IF m \in {4, 6, 9, 11} THEN 30 ELSE 31

\* The first position >= from that holds no whitespace.
RECURSIVE skip_space(_, _)
skip_space(s, from) ==
    IF from <= Len(s) /\ IsSpace(CharAt(s, from)) THEN skip_space(s, from + 1) ELSE from

TwoDigits(n) == CharAt(Digits, (n \div 10) + 1) \o CharAt(Digits, (n % 10) + 1)

ParseFailure == [ok |-> FALSE, date |-> ""]

\* The regular expression strptime builds for "%d %B %Y" is
\*   (3[0-1]|[1-2]\d|0[1-9]|[1-9]| [1-9])\s+(month name)\s+(\d\d\d\d)
\* matched from the start, ignoring case, with nothing left over; the date is
\* then built by datetime, which rejects year 0 and a day the month lacks.
\* The date is written in ISO form, "2011-11-16".
strptime(s) ==
    LET c1 == CharAt(s, 1)
        c2 == CharAt(s, 2)
        two == \/ (c1 = "3" /\ c2 \in {"0", "1"})
               \/ (c1 \in {"1", "2"} /\ IsDigit(c2))
               \/ (c1 = "0" /\ IsDigit(c2) /\ c2 # "0")
        one == IsDigit(c1) /\ c1 # "0"
        padded == c1 = " " /\ IsDigit(c2) /\ c2 # "0"
        \* the alternative must be followed by whitespace, so at most one fits
        dlen == IF two /\ IsSpace(CharAt(s, 3)) THEN 2
                ELSE IF one /\ IsSpace(c2) THEN 1
                ELSE IF padded /\ IsSpace(CharAt(s, 3)) THEN 2
                ELSE 0
        day == IF dlen = 1 THEN DigitVal(c1)
               ELSE IF padded THEN DigitVal(c2)
               ELSE 10 * DigitVal(c1) + DigitVal(c2)
        mstart == skip_space(s, dlen + 1)
        \* as far as the longest month name reaches
        mtext == lower(Sub(s, mstart, mstart + 8))
        months == {m \in 1..12 : Sub(mtext, 1, Len(MonthNames[m])) = MonthNames[m]}
    IN  IF dlen = 0 \/ months = {} THEN ParseFailure
        ELSE
          LET month == CHOOSE m \in months : TRUE
              mend == mstart + Len(MonthNames[month])
              ystart == skip_space(s, mend)
              ytext == Sub(s, ystart, ystart + 3)
              year == 1000 * DigitVal(CharAt(ytext, 1)) + 100 * DigitVal(CharAt(ytext, 2))
                      + 10 * DigitVal(CharAt(ytext, 3)) + DigitVal(CharAt(ytext, 4))
          IN  IF \/ ystart = mend
                 \/ ystart + 3 # Len(s)
                 \/ \E k \in 1..4 : ~IsDigit(CharAt(ytext, k))
              THEN ParseFailure
              ELSE IF year = 0 \/ day > DaysIn(month, year) THEN ParseFailure
              ELSE [ok |-> TRUE,
                    date |-> ytext \o "-" \o TwoDigits(month) \o "-" \o TwoDigits(day)]

----------------------------------------------------------------------------
(* The enumerations: member name |-> display value *)

CompanyType ==
    [ASSURANCE_COMPANY |-> "Assurance company",
     CHARITABLE_INCORPORATED_ORGANISATION |-> "Charitable incorporated organisation",
     CONVERTED_CLOSED |-> "Converted / closed",
     CREDIT_UNION_NORTHERN_IRELAND |-> "Credit union (Northern Ireland)",
     EUROPEAN_ECONOMIC_INTEREST_GROUPING |-> "European Economic Interest Grouping (EEIG)",
     EUROPEAN_PUBLIC_LIMITED_LIABILITY_COMPANY |-> "European public limited liability company (SE)",
     FURTHER_EDUCATION_OR_SIXTH_FORM_COLLEGE_CORPORATION |-> "Further education or sixth form college corporation",
     INDUSTRIAL_AND_PROVIDENT_SOCIETY |-> "Industrial and Provident society",
     INVESTMENT_COMPANY_WITH_VARIABLE_CAPITAL |-> "Investment company with variable capital",
     LIMITED_LIABILITY_PARTNERSHIP |-> "Limited liability partnership",
     LIMITED_PARTNERSHIP |-> "Limited partnership",
     NORTHERN_IRELAND_COMPANY |-> "Northern Ireland company",
     OLD_PUBLIC_COMPANY |-> "Old public company",
     OVERSEAS_COMPANY |-> "Overseas company",
     OVERSEAS_ENTITY |-> "Overseas entity",
     PRIVATE_LIMITED_BY_GUARANTEE_WITHOUT_SHARE_CAPITAL |-> "Private limited by guarantee without share capital",
     PRIVATE_LIMITED_COMPANY |-> "Private limited company",
     PRIVATE_LIMITED_COMPANY_BY_GUARANTEE_WITHOUT_SHARE_CAPITAL |-> "Private Limited Company by guarantee without share capital, use of 'Limited' exemption",
     PRIVATE_LIMITED_COMPANY_EXEMPTION |-> "Private Limited Company, use of 'Limited' exemption",
     PRIVATE_UNLIMITED_COMPANY |-> "Private unlimited company",
     PRIVATE_UNLIMITED_COMPANY_WITHOUT_SHARE_CAPITAL |-> "Private unlimited company without share capital",
     PROTECTED_CELL_COMPANY |-> "Protected cell company",
     PUBLIC_LIMITED_COMPANY |-> "Public limited company",
     REGISTERED_SOCIETY |-> "Registered society",
     ROYAL_CHARTER_COMPANY |-> "Royal charter company",
     SCOTTISH_CHARITABLE_INCORPORATED_ORGANISATION |-> "Scottish charitable incorporated organisation",
     SCOTTISH_QUALIFYING_PARTNERSHIP |-> "Scottish qualifying partnership",
     UK_ESTABLISHMENT_COMPANY |-> "UK establishment company",
     UNREGISTERED_COMPANY |-> "Unregistered company"]

CompanySubType ==
    [COMMUNITY_INTEREST_COMPANY |-> "Community Interest Company (CIC)",
     PRIVATE_FUND_LIMITED_PARTNERSHIP |-> "Private Fund Limited Partnership (PFLP)"]

CompanyStatus ==
    [ACTIVE |-> "active",
     DISSOLVED |-> "dissolved",
     OPEN |-> "open",
     CLOSED |-> "closed",
     CONVERTED_CLOSED |-> "converted-closed",
     RECEIVERSHIP |-> "receivership",
     LIQUIDATION |-> "liquidation",
     ADMINISTRATION |-> "administration",
     INSOLVENCY_PROCEEDINGS |-> "insolvency-proceedings",
     VOLUNTARY_ARRAGEMENT |-> "voluntary-arrangement"]

\* Enum(value): Some(member) for the member with that value, None where the
\* enumeration raises ValueError.
enum_by_value(E, v) ==
    LET ms == {m \in DOMAIN E : E[m] = v}
    IN  IF ms = {} THEN None ELSE Some(CHOOSE m \in ms : TRUE)

\* As CompanyType_of, with a default in place of the ValueError.
CompanyType_of_default(text) ==
    IF enum_by_value(CompanyType, text) = None THEN Some("PRIVATE_LIMITED_COMPANY")
    ELSE enum_by_value(CompanyType, text)

\* CompanyType[CompanyType(text).name]
CompanyType_of(text) == enum_by_value(CompanyType, text)

\* CompanySubType[CompanySubType(text).name]
CompanySubType_of(text) == enum_by_value(CompanySubType, text)

IndustryCode(code, description) == [code |-> code, description |-> description]

Company(a1, a2, a3, a4, a5, a6, a7, a8, a9, a10, a11, a12, a13, a14) ==
    [primary_name |-> a1, local_registration_number |-> a2,
     registered_office_address |-> a3, status |-> a4, company_type |-> a5,
     company_sub_type |-> a6, incorporation_date |-> a7, dissolved_date |-> a8,
     next_statement_date |-> a9, last_statement_date |-> a10,
     next_accounts_date |-> a11, last_accounts_date |-> a12,
     industry_codes |-> a13, previous_company_names |-> a14]

SearchEndpoint ==
    "https://find-and-update.company-information.service.gov.uk/advanced-search/get-results?companyNameIncludes="

SicEndpoint == "https://resources.companieshouse.gov.uk/sic/"

----------------------------------------------------------------------------
(* The pieces of the row loop *)

\* ul_data.select("li:nth-child(3)")[0].text.split(" - ")[0]
registration_number_of(row) == split(row.li[3], " - ")[1]

\* As passes_filter, with equality in place of containment.
passes_filter_equal(reg, lrn) ==
    (reg # None /\ Val(reg) = lrn) \/ reg = None

\* As passes_filter, with no filter at the head of the loop.
passes_filter_always(reg, lrn) == TRUE

\* registration_number is not None and registration_number in
\* local_registration_number or registration_number is None
passes_filter(reg, lrn) ==
    (reg # None /\ contains(Val(reg), lrn)) \/ reg = None

\* As primary_name_of, with .strip().
primary_name_of_stripped(row) == Strip(split(row.a, "(")[1])

\* a_data.text.split("(")[0]
primary_name_of(row) == split(row.a, "(")[1]

\* As date_text_of, with split(" on ", 1): all that follows the first " on ".
date_text_of_rest(text) ==
    LET k == find_from(text, " on ", 1) IN Sub(text, k + 4, Len(text))

\* The text handed to strptime: item.text.split(" on ")[1]
date_text_of(text) == split(text, " on ")[2]

\* if " on " in text: strptime(text.split(" on ")[1], "%d %B %Y").date()
\* else: None.  ok is FALSE where strptime raises ValueError.
date_of(text) ==
    IF contains(" on ", text)
    THEN LET r == strptime(date_text_of(text))
         IN  [ok |-> r.ok, value |-> Some(r.date)]
    ELSE [ok |-> TRUE, value |-> None]

\* As description_of, with the last listing of the code, as a dict would hold.
description_of_last(sic_code, codes, descs) ==
    LET ks == {k \in 1..Len(codes) : codes[k] = sic_code}
    IN  IF ks = {} THEN ""
        ELSE descs[CHOOSE k \in ks : \A m \in ks : k >= m]

\* desc = ""; if sic_code in sic_code_list: desc = sic_desc_list[index]
description_of(sic_code, codes, descs) ==
    LET ks == {k \in 1..Len(codes) : codes[k] = sic_code}
    IN  IF ks = {} THEN ""
        ELSE descs[CHOOSE k \in ks : \A m \in ks : k <= m]

\* The tokens of list item 6: text.split(" - ")[1].split(", "); ok is FALSE
\* where the index [1] raises IndexError.
sic_codes_of(text) ==
    LET parts == split(text, " - ")
    IN  IF Len(parts) < 2 THEN [ok |-> FALSE, value |-> <<>>]
        ELSE [ok |-> TRUE, value |-> split(parts[2], ", ")]

\* As industry_codes_of, with the empty list for an empty item.
industry_codes_of_empty_list(text, codes, descs) ==
    IF text # ""
    THEN LET t == sic_codes_of(text)
         IN  [ok |-> t.ok,
              value |-> Some([k \in 1..Len(t.value) |->
                               IndustryCode(t.value[k],
                                            description_of(t.value[k], codes, descs))])]
    ELSE [ok |-> TRUE, value |-> Some(<<>>)]

\* if text: one IndustryCode per token, in order; else None
industry_codes_of(text, codes, descs) ==
    IF text # ""
    THEN LET t == sic_codes_of(text)
         IN  [ok |-> t.ok,
              value |-> Some([k \in 1..Len(t.value) |->
                               IndustryCode(t.value[k],
                                            description_of(t.value[k], codes, descs))])]
    ELSE [ok |-> TRUE, value |-> None]

\* url = endpoint; if name: url += name.replace(" ", "+")
\* url += "&status=" + status.value
url_with_name(nm) ==
    SearchEndpoint
    \o (IF nm # None /\ Val(nm) # "" THEN replace(Val(nm), " ", "+") ELSE "")

\* As search_url, with the name as given.
search_url_raw_name(nm, st) ==
    SearchEndpoint \o (IF nm # None THEN Val(nm) ELSE "")
    \o "&status=" \o CompanyStatus[Val(st)]

search_url(nm, st) == url_with_name(nm) \o "&status=" \o CompanyStatus[Val(st)]

\* The value a parameter is bound to: the keyword argument when given, its
\* default otherwise.
bind(kwargs, key, default) ==
    IF \E p \in kwargs : p[1] = key
    THEN (CHOOSE p \in kwargs : p[1] = key)[2]
    ELSE default

----------------------------------------------------------------------------
(* The inputs: result rows, reference rows, calls *)

MaxRows == 2            \* result rows on a page
MaxSicRows == 2         \* rows of the reference table

Row(a, li) == [a |-> a, li |-> li]

\* The row of the source's own example, with a parenthetical after the name.
RowExample ==
    Row("ACME CIC (dissolved)",
        <<"Private limited by guarantee without share capital",
          "Community Interest Company (CIC)",
          "07850377 - Incorporated on 16 November 2011",
          "Dissolved on 11 September 2018",
          "12 New Street, Huddersfield, England HD1 2AR",
          "SIC codes - 78109, 88100">>)
\* No sub-type, no dissolution, no SIC codes; whitespace around the address.
RowActive ==
    Row("BETA LTD",
        <<"Private limited company", "", "0780123 - Incorporated on 1 May 2020",
          "", " 1 High St ", "">>)
\* No " - " and no " on " in item 3; a code the reference table lacks.
RowNoDate ==
    Row("Gamma LP",
        <<"Limited partnership", "Private Fund Limited Partnership (PFLP)",
          "070001", "", "2 Low Rd", "SIC codes - 99999">>)
RowUnknownType ==
    Row("Delta",
        <<"Trust", "", "SC0781 - Incorporated on 2 March 2012", "", "3 Mid Ln", "">>)
RowUnknownSubType ==
    Row("Epsilon",
        <<"Private limited company", "community interest company (cic)",
          "0785 - Incorporated on 2 March 2012", "", "4 Mid Ln", "">>)
RowBadIncorporation ==
    Row("Zeta",
        <<"Public limited company", "", "0790000 - Incorporated on 31 February 2011",
          "", "5 Mid Ln", "">>)
\* The month of item 4 is abbreviated.
RowBadDissolved ==
    Row("Eta",
        <<"Public limited company", "", "0790001 - Incorporated on 3 March 2011",
          "Dissolved on 11 Sept 2018", "6 Mid Ln", "">>)
\* A second " on " in item 4 and a second " - " in item 6.
RowRepeated ==
    Row("Theta (x) (y)",
        <<"Overseas company", "", "08000000 - Incorporated on 2 March 2012",
          "Dissolved on 11 September 2018 on appeal", "7 Mid Ln",
          "SIC codes - 78109 - 88100">>)
\* The link text starts with "(" and item 3 starts with " - ".
RowEmptyName ==
    Row("(dissolved)",
        <<"Old public company", "", " - Incorporated on 16 November 2011", "",
          "8 Mid Ln", "">>)
\* Item 3 is empty.
RowEmptyNumber ==
    Row("Iota", <<"Old public company", "", "", "", "9 Mid Ln", "">>)
\* Item 6 is not empty and holds no " - ".
RowNoSeparator ==
    Row("Kappa",
        <<"Registered society", "", "0786 - Incorporated on 4 March 2012", "",
          "10 Mid Ln", "SIC codes">>)

Rows == {RowExample, RowActive, RowNoDate, RowUnknownType, RowUnknownSubType,
         RowBadIncorporation, RowBadDissolved, RowRepeated, RowEmptyName,
         RowEmptyNumber, RowNoSeparator}

SeqsUpTo(S, n) == UNION {[1..k -> S] : k \in 0..n}

Pages == SeqsUpTo(Rows, MaxRows)

\* Reference rows as the texts of their td cells: a header row has none.
SicRows == {<<>>,
            <<"78109", "Other activities of employment placement agencies">>,
            <<"88100", "Social work activities without accommodation">>,
            <<"78109", "Renting">>,
            <<"01110">>,
            <<"88100", "Social work", "note">>}

SicTables == SeqsUpTo(SicRows, MaxSicRows)

DefaultTable ==
    <<<<>>,
      <<"78109", "Other activities of employment placement agencies">>,
      <<"88100", "Social work activities without accommodation">>>>

\* Keyword arguments are pairs <<keyword, value>>; a keyword left out is absent.
KwArgs(names, regs, statuses) ==
    {n \cup r \cup st : n \in names, r \in regs, st \in statuses}

NameArgs == {{}} \cup {{<<"name", v>>} : v \in {None, Some(""), Some("Atradius"), Some("a b  c")}}
RegArgs == {{}} \cup {{<<"registration_number", v>>} :
                        v \in {None, Some(""), Some("078"), Some("sc")}}
StatusArgs == {{}} \cup {{<<"status", v>>} :
                           v \in {None} \cup {Some(m) : m \in DOMAIN CompanyStatus}}

\* What is explored: every call on one page; every page under every
\* registration-number filter; every reference table under the plain call.
Scenarios ==
    (KwArgs(NameArgs, RegArgs, StatusArgs) \X {<<RowExample>>} \X {DefaultTable})
    \cup (KwArgs({{}}, RegArgs, {{}}) \X Pages \X {DefaultTable})
    \cup (KwArgs({{<<"name", Some("Atradius")>>}}, {{}}, {{}})
        \X {<<RowExample>>, <<RowNoDate, RowRepeated>>} \X SicTables)

----------------------------------------------------------------------------
(* search_companies, step by step *)

Unbound == <<"<unbound>", "<unbound>">>

Init ==
    /\ \E sc \in Scenarios :
          /\ args = sc[1]
          /\ web_search = sc[2]
          /\ web_sic = sc[3]
    /\ pc = "call"
    /\ name = Unbound /\ registration_number = Unbound /\ status = Unbound
    /\ url = Unbound
    /\ requested = <<>>
    /\ soup = Unbound /\ soup1 = Unbound
    /\ sic_code_list = Unbound /\ sic_desc_list = Unbound
    /\ j = 0 /\ i = 0
    /\ local_registration_number = Unbound /\ primary_name = Unbound
    /\ company_type = Unbound /\ company_sub_type = Unbound
    /\ incorporation_date = Unbound /\ dissolved_date = Unbound
    /\ registered_office_address = Unbound /\ industry_codes = Unbound
    /\ companies = Unbound
    /\ error = NoError

world == <<args, web_search, web_sic>>
params == <<name, registration_number, status>>
sic_vars == <<soup1, sic_code_list, sic_desc_list, j>>
row_vars == <<local_registration_number, primary_name, company_type,
              company_sub_type, incorporation_date, dissolved_date,
              registered_office_address, industry_codes>>

\* The row the loop is at.
tr_data == soup[i + 1]

\* def search_companies(name=None, registration_number=None,
\*                      status=CompanyStatus.ACTIVE)
Call ==
    /\ pc = "call"
    /\ name' = bind(args, "name", None)
    /\ registration_number' = bind(args, "registration_number", None)
    /\ status' = bind(args, "status", Some("ACTIVE"))
    /\ pc' = "build_url"
    /\ UNCHANGED <<world, url, requested, soup, sic_vars, i, row_vars, companies, error>>

\* companies = []; the search URL.  status.value of None raises AttributeError.
BuildUrl ==
    /\ pc = "build_url"
    /\ companies' = <<>>
    /\ IF status = None
       THEN /\ url' = url_with_name(name)
            /\ error' = Raise("AttributeError", "status")
            /\ pc' = "raised"
       ELSE /\ url' = search_url(name, status)
            /\ error' = error
            /\ pc' = "get_search"
    /\ UNCHANGED <<world, params, requested, soup, sic_vars, i, row_vars>>

\* page = requests.get(url); soup = BeautifulSoup(page.content)
GetSearch ==
    /\ pc = "get_search"
    /\ requested' = Append(requested, url)
    /\ soup' = web_search
    /\ pc' = "get_sic"
    /\ UNCHANGED <<world, params, url, sic_vars, i, row_vars, companies, error>>

\* The reference page, and the two empty lists.
GetSic ==
    /\ pc = "get_sic"
    /\ url' = SicEndpoint
    /\ requested' = Append(requested, SicEndpoint)
    /\ soup1' = web_sic
    /\ sic_code_list' = <<>>
    /\ sic_desc_list' = <<>>
    /\ j' = 0
    /\ pc' = "sic_loop"
    /\ UNCHANGED <<world, params, soup, i, row_vars, companies, error>>

\* One tr of the reference table: if td_data: append td_data[0].text and
\* td_data[1].text.  td_data[1] raises IndexError on a row of one cell, after
\* the code was appended.
SicRow ==
    /\ pc = "sic_loop"
    /\ j < Len(soup1)
    /\ LET td_data == soup1[j + 1]
       IN  IF td_data = <<>>
           THEN UNCHANGED <<sic_code_list, sic_desc_list, error, pc>>
           ELSE /\ sic_code_list' = Append(sic_code_list, td_data[1])
                /\ IF Len(td_data) < 2
                   THEN /\ error' = Raise("IndexError", "sic_desc_list")
                        /\ pc' = "raised"
                        /\ UNCHANGED sic_desc_list
                   ELSE /\ sic_desc_list' = Append(sic_desc_list, td_data[2])
                        /\ UNCHANGED <<error, pc>>
    /\ j' = j + 1
    /\ UNCHANGED <<world, params, url, requested, soup, soup1, i, row_vars, companies>>

\* The reference loop is over; the row loop starts.
SicEnd ==
    /\ pc = "sic_loop"
    /\ j = Len(soup1)
    /\ pc' = "row_loop"
    /\ i' = 0
    /\ UNCHANGED <<world, params, url, requested, soup, sic_vars, row_vars, companies, error>>

\* The next tr of the results: its registration number and the filter.  A row
\* the filter rejects is left at once.
NextRow ==
    /\ pc = "row_loop"
    /\ i < Len(soup)
    /\ LET number == registration_number_of(tr_data)
       IN  /\ local_registration_number' = number
           /\ IF passes_filter(registration_number, number)
              THEN pc' = "primary_name" /\ i' = i
              ELSE pc' = "row_loop" /\ i' = i + 1
    /\ UNCHANGED <<world, params, url, requested, soup, sic_vars, primary_name,
                   company_type, company_sub_type, incorporation_date,
                   dissolved_date, registered_office_address, industry_codes,
                   companies, error>>

RowStep(next) ==
    /\ pc' = next
    /\ UNCHANGED <<world, params, url, requested, soup, sic_vars, i, companies, error>>

RowRaise(exc, at) ==
    /\ pc' = "raised"
    /\ error' = Raise(exc, at)
    /\ UNCHANGED <<world, params, url, requested, soup, sic_vars, i, companies>>

\* primary_name = a_data.text.split("(")[0]
ParseName ==
    /\ pc = "primary_name"
    /\ primary_name' = primary_name_of(tr_data)
    /\ RowStep("company_type")
    /\ UNCHANGED <<local_registration_number, company_type, company_sub_type,
                   incorporation_date, dissolved_date, registered_office_address,
                   industry_codes>>

\* company_type = CompanyType[CompanyType(li 1).name]; ValueError when no
\* member has that value.
ParseType ==
    /\ pc = "company_type"
    /\ LET m == CompanyType_of(tr_data.li[1])
       IN  IF m = None
           THEN RowRaise("ValueError", "company_type") /\ UNCHANGED company_type
           ELSE company_type' = Val(m) /\ RowStep("company_sub_type")
    /\ UNCHANGED <<local_registration_number, primary_name, company_sub_type,
                   incorporation_date, dissolved_date, registered_office_address,
                   industry_codes>>

\* if li 2: company_sub_type = CompanySubType[CompanySubType(li 2).name]
\* else: company_sub_type = None
ParseSubType ==
    /\ pc = "company_sub_type"
    /\ IF tr_data.li[2] # ""
       THEN LET m == CompanySubType_of(tr_data.li[2])
            IN  IF m = None
                THEN RowRaise("ValueError", "company_sub_type") /\ UNCHANGED company_sub_type
                ELSE company_sub_type' = m /\ RowStep("incorporation_date")
       ELSE company_sub_type' = None /\ RowStep("incorporation_date")
    /\ UNCHANGED <<local_registration_number, primary_name, company_type,
                   incorporation_date, dissolved_date, registered_office_address,
                   industry_codes>>

\* incorporation_date from li 3
ParseIncorporation ==
    /\ pc = "incorporation_date"
    /\ LET d == date_of(tr_data.li[3])
       IN  IF d.ok
           THEN incorporation_date' = d.value /\ RowStep("dissolved_date")
           ELSE RowRaise("ValueError", "incorporation_date") /\ UNCHANGED incorporation_date
    /\ UNCHANGED <<local_registration_number, primary_name, company_type,
                   company_sub_type, dissolved_date, registered_office_address,
                   industry_codes>>

\* dissolved_date from li 4
ParseDissolved ==
    /\ pc = "dissolved_date"
    /\ LET d == date_of(tr_data.li[4])
       IN  IF d.ok
           THEN dissolved_date' = d.value /\ RowStep("registered_office_address")
           ELSE RowRaise("ValueError", "dissolved_date") /\ UNCHANGED dissolved_date
    /\ UNCHANGED <<local_registration_number, primary_name, company_type,
                   company_sub_type, incorporation_date, registered_office_address,
                   industry_codes>>

\* registered_office_address = li 5 text
ParseAddress ==
    /\ pc = "registered_office_address"
    /\ registered_office_address' = tr_data.li[5]
    /\ RowStep("industry_codes")
    /\ UNCHANGED <<local_registration_number, primary_name, company_type,
                   company_sub_type, incorporation_date, dissolved_date,
                   industry_codes>>

\* industry_codes from li 6 and the two reference lists.  The empty list is
\* assigned before the split, so it is what the name holds when [1] raises.
ParseIndustry ==
    /\ pc = "industry_codes"
    /\ LET r == industry_codes_of(tr_data.li[6], sic_code_list, sic_desc_list)
       IN  IF r.ok
           THEN industry_codes' = r.value /\ RowStep("append")
           ELSE industry_codes' = Some(<<>>) /\ RowRaise("IndexError", "industry_codes")
    /\ UNCHANGED <<local_registration_number, primary_name, company_type,
                   company_sub_type, incorporation_date, dissolved_date,
                   registered_office_address>>

\* companies.append(Company(...)), and on to the next row
AppendCompany ==
    /\ pc = "append"
    /\ companies' = Append(companies,
          Company(primary_name, local_registration_number, registered_office_address,
                  status, company_type, company_sub_type, incorporation_date,
                  dissolved_date, None, None, None, None, industry_codes, None))
    /\ i' = i + 1
    /\ pc' = "row_loop"
    /\ UNCHANGED <<world, params, url, requested, soup, sic_vars, row_vars, error>>

\* return companies
Return ==
    /\ pc = "row_loop"
    /\ i = Len(soup)
    /\ pc' = "done"
    /\ UNCHANGED <<world, params, url, requested, soup, sic_vars, i, row_vars,
                   companies, error>>

Next ==
    \/ Call
    \/ BuildUrl
    \/ GetSearch
    \/ GetSic
    \/ SicRow
    \/ SicEnd
    \/ NextRow
    \/ ParseName
    \/ ParseType
    \/ ParseSubType
    \/ ParseIncorporation
    \/ ParseDissolved
    \/ ParseAddress
    \/ ParseIndustry
    \/ AppendCompany
    \/ Return

Spec == Init /\ [][Next]_vars

----------------------------------------------------------------------------
(* What the properties are stated with: texts described by their positions,  *)
(* not by the splitting the code does.                                       *)

\* The positions at which sep occurs in s.
Occurrences(s, sep) ==
    {k \in 1..(Len(s) - Len(sep) + 1) : SubSeq(s, k, k + Len(sep) - 1) = sep}

Least(S) == CHOOSE k \in S : \A m \in S : k <= m

IsSubstring(sub, s) == sub = "" \/ Occurrences(s, sub) # {}

\* The text before the first sep; all of s when sep does not occur.
TextBefore(s, sep) ==
    LET at == Occurrences(s, sep)
    IN  IF at = {} THEN s ELSE Sub(s, 1, Least(at) - 1)

\* The whole text following the first sep.
TextAfter(s, sep) == Sub(s, Least(Occurrences(s, sep)) + Len(sep), Len(s))

\* The text following the first sep, up to the next sep when there is one.
TextBetween(s, sep) == TextBefore(TextAfter(s, sep), sep)

RECURSIVE Join(_, _)
Join(parts, sep) ==
    IF Len(parts) = 0 THEN ""
    ELSE IF Len(parts) = 1 THEN parts[1]
    ELSE parts[1] \o sep \o Join(Tail(parts), sep)

\* The registration number a row shows, and whether the filter lets it in.
NumberShown(row) == TextBefore(row.li[3], " - ")
Selected(row) ==
    registration_number = None \/ IsSubstring(Val(registration_number), NumberShown(row))

ParsePcs == {"primary_name", "company_type", "company_sub_type", "incorporation_date",
             "dissolved_date", "registered_office_address", "industry_codes", "append"}
RowFields == {"company_type", "company_sub_type", "incorporation_date",
              "dissolved_date", "industry_codes"}
RaisedInRow == pc = "raised" /\ error.at \in RowFields
InRowLoop == pc \in ParsePcs \cup {"row_loop", "done"} \/ RaisedInRow
\* Between two rows, or returned: the result holds all it will of the first i rows.
BetweenRows == pc \in {"row_loop", "done"}

\* The rows among the first n of the page that the filter lets in, in page order.
SelectedRows(n) == SelectSeq(SubSeq(soup, 1, n), Selected)

TypeKnown(text) == \E m \in DOMAIN CompanyType : CompanyType[m] = text
SubTypeKnown(text) == \E m \in DOMAIN CompanySubType : CompanySubType[m] = text

----------------------------------------------------------------------------
(* C1: when search_companies returns, the result holds exactly the rows     *)
(* whose registration number (the text of item 3 before the first " - ")    *)
(* contains the registration_number argument, every row when there is no    *)
(* argument, one Company per row in page order.  The same holds of the rows *)
(* done so far each time the row loop is between two rows.                  *)
C1_FilterExact ==
    BetweenRows =>
        LET rows == SelectedRows(i)
        IN  /\ Len(companies) = Len(rows)
            /\ \A k \in 1..Len(rows) :
                  /\ companies[k].local_registration_number = NumberShown(rows[k])
                  /\ companies[k].registered_office_address = rows[k].li[5]
                  /\ CompanyType[companies[k].company_type] = rows[k].li[1]

\* A search for "078" returned: "070001" was left out and "0780123" is in.
C1_Witness ==
    /\ pc = "done"
    /\ registration_number = Some("078")
    /\ soup = <<RowNoDate, RowActive>>
    /\ Len(companies) = 1
    /\ companies[1].local_registration_number = "0780123"

----------------------------------------------------------------------------
(* C7: a call without status searches for ACTIVE; the first URL requested   *)
(* is the endpoint, then the name with every space turned into "+" (nothing *)
(* for no name), then "&status=" and the status value; the registration     *)
(* number has no part in it, and is not found in it unless the name holds   *)
(* it.                                                                      *)
C7_SearchUrl ==
    /\ (pc # "call" /\ ~\E p \in args : p[1] = "status") => status = Some("ACTIVE")
    /\ requested # <<>> =>
          LET u == requested[1]
              n == IF name = None THEN "" ELSE Val(name)
              e == Len(SearchEndpoint)
              tail == "&status=" \o CompanyStatus[Val(status)]
          IN  /\ Len(u) = e + Len(n) + Len(tail)
              /\ Sub(u, 1, e) = SearchEndpoint
              /\ \A k \in 1..Len(n) :
                    CharAt(u, e + k) = (IF CharAt(n, k) = " " THEN "+" ELSE CharAt(n, k))
              /\ Sub(u, e + Len(n) + 1, Len(u)) = tail
              /\ (/\ registration_number # None
                  /\ Val(registration_number) # ""
                  /\ ~IsSubstring(Val(registration_number), n))
                    => ~IsSubstring(Val(registration_number), u)

\* A name with three spaces, a registration number and no status were sent.
C7_Witness ==
    /\ requested # <<>>
    /\ args = {<<"name", Some("a b  c")>>, <<"registration_number", Some("078")>>}
    /\ requested[1] = SearchEndpoint \o "a+b++c&status=active"

----------------------------------------------------------------------------
(* C2: every Company of the result has a non-empty primary_name and a       *)
(* non-empty local_registration_number, also for a row whose link text      *)
(* starts with "(" or whose item 3 is empty or starts with " - ".           *)
C2_NonEmptyNameAndNumber ==
    BetweenRows =>
        \A k \in 1..Len(companies) :
            /\ companies[k].primary_name # ""
            /\ companies[k].local_registration_number # ""

----------------------------------------------------------------------------
(* C3 *)

Codes(list) == [k \in 1..Len(list) |-> list[k].code]

\* The rows of the reference table that have cells.
CellRows == SelectSeq(soup1, LAMBDA r : Len(r) > 0)
\* The description the table gives a code: that of the first row listing it.
Described(code) ==
    LET ks == {k \in 1..Len(CellRows) : CellRows[k][1] = code}
    IN  IF ks = {} THEN "" ELSE CellRows[Least(ks)][2]

----------------------------------------------------------------------------
(* C4: in every Company of the result industry_codes is None exactly when   *)
(* item 6 of its row is empty, and a non-empty list otherwise;              *)
(* company_sub_type is None exactly when item 2 is empty; an empty item 2   *)
(* or 6 raises nothing.                                                     *)
C4_NullNotEmpty ==
    /\ BetweenRows =>
          LET rows == SelectedRows(i)
          IN  \A k \in 1..Len(companies) :
                /\ companies[k].industry_codes = None <=> rows[k].li[6] = ""
                /\ companies[k].industry_codes # None =>
                      Len(Val(companies[k].industry_codes)) > 0
                /\ companies[k].company_sub_type = None <=> rows[k].li[2] = ""
    /\ (pc = "raised" /\ error.at = "company_sub_type") => tr_data.li[2] # ""
    /\ (pc = "raised" /\ error.at = "industry_codes") => tr_data.li[6] # ""

\* A result with a Company that has neither sub-type nor codes and one that
\* has both.
C4_Witness ==
    /\ pc = "done"
    /\ Len(companies) = 2
    /\ companies[1].industry_codes = None /\ companies[1].company_sub_type = None
    /\ companies[2].industry_codes # None /\ companies[2].company_sub_type # None

----------------------------------------------------------------------------
(* C5 *)

\* What a date item must have given once its step is done: None without
\* " on ", else the date strptime reads in the text chosen by Chosen.
DateRead(text, date, Chosen(_, _)) ==
    IF IsSubstring(" on ", text)
    THEN LET read == strptime(Chosen(text, " on "))
         IN  read.ok /\ date = Some(read.date)
    ELSE date = None

\* What a date item must be for its step to raise.
DateRaised(text, Chosen(_, _)) ==
    /\ error.exc = "ValueError"
    /\ IsSubstring(" on ", text)
    /\ ~strptime(Chosen(text, " on ")).ok

\* C5 as claimed: the date is read in the whole text after the first " on ".
C5_Original ==
    /\ pc = "dissolved_date" => DateRead(tr_data.li[3], incorporation_date, TextAfter)
    /\ pc = "registered_office_address" => DateRead(tr_data.li[4], dissolved_date, TextAfter)
    /\ (pc = "raised" /\ error.at = "incorporation_date") => DateRaised(tr_data.li[3], TextAfter)
    /\ (pc = "raised" /\ error.at = "dissolved_date") => DateRaised(tr_data.li[4], TextAfter)

\* C5, amended: for items 3 and 4 of every row whose dates are read (a row the
\* filter lets in, once its type and sub-type are found): the date is None,
\* with no error, exactly when the text holds no " on "; when it does, the
\* date is read, as day, month name and year, in the text between the first
\* " on " and the next " on " (the end of the text when there is no other),
\* and the search fails with a ValueError when that text is no such date.
C5_Dates ==
    /\ pc = "dissolved_date" => DateRead(tr_data.li[3], incorporation_date, TextBetween)
    /\ pc = "registered_office_address" => DateRead(tr_data.li[4], dissolved_date, TextBetween)
    /\ (pc = "raised" /\ error.at = "incorporation_date") => DateRaised(tr_data.li[3], TextBetween)
    /\ (pc = "raised" /\ error.at = "dissolved_date") => DateRaised(tr_data.li[4], TextBetween)
    /\ (pc = "row_loop" /\ i > 0 /\ Selected(soup[i])) =>
          LET made == companies[Len(companies)]
          IN  /\ DateRead(soup[i].li[3], made.incorporation_date, TextBetween)
              /\ DateRead(soup[i].li[4], made.dissolved_date, TextBetween)

\* The row of the example was read: 16 November 2011 and 11 September 2018;
\* and the date of an item 4 with a second " on " was read too.
C5_Witness ==
    /\ pc = "registered_office_address"
    /\ tr_data = RowRepeated
    /\ dissolved_date = Some("2018-09-11")
    /\ Len(companies) = 1
    /\ companies[1].local_registration_number = "07850377"
    /\ companies[1].incorporation_date = Some("2011-11-16")
    /\ companies[1].dissolved_date = Some("2018-09-11")

----------------------------------------------------------------------------
(* C6 *)

RowLooksUp(row) ==
    TypeKnown(row.li[1]) /\ (row.li[2] = "" \/ SubTypeKnown(row.li[2]))

\* C6 as claimed: with any row on the page whose type or non-empty sub-type
\* is no display value, the search does not return.
C6_Original ==
    pc = "done" => \A k \in 1..Len(soup) : RowLooksUp(soup[k])

\* C6, amended: if any row that the registration-number filter lets in has a
\* first item that is no CompanyType display value, or a non-empty second
\* item that is no CompanySubType display value, search_companies does not
\* return: it raises, a ValueError of the lookup when the lookup is what
\* fails, and never a result with the other rows.  No Company gets a type or
\* sub-type other than the one whose display value is its row's text.
C6_LookupFailure ==
    /\ pc = "done" => \A k \in 1..Len(soup) : Selected(soup[k]) => RowLooksUp(soup[k])
    /\ (pc = "raised" /\ error.at = "company_type") =>
          error.exc = "ValueError" /\ ~TypeKnown(tr_data.li[1])
    /\ (pc = "raised" /\ error.at = "company_sub_type") =>
          error.exc = "ValueError" /\ ~SubTypeKnown(tr_data.li[2])
    /\ pc = "company_sub_type" => CompanyType[company_type] = tr_data.li[1]
    /\ (pc = "incorporation_date" /\ company_sub_type # None) =>
          CompanySubType[Val(company_sub_type)] = tr_data.li[2]
    /\ BetweenRows =>
          LET rows == SelectedRows(i)
          IN  \A k \in 1..Len(companies) :
                /\ CompanyType[companies[k].company_type] = rows[k].li[1]
                /\ companies[k].company_sub_type # None =>
                      CompanySubType[Val(companies[k].company_sub_type)] = rows[k].li[2]

\* The lookup of "Trust" failed after a Company had been made of the row
\* before it.
C6_Witness ==
    /\ pc = "raised"
    /\ error = Raise("ValueError", "company_type")
    /\ tr_data.li[1] = "Trust"
    /\ Len(companies) = 1

----------------------------------------------------------------------------
(* C8 *)

\* C8 as claimed: every row is parsed, the filter coming last: from the head
\* of the loop a row always goes on to its parsing.
C8_Original ==
    [][(pc = "row_loop" /\ i < Len(soup)) => pc' = "primary_name"]_vars

\* C8, amended: the filter is applied to a row before its name, type,
\* sub-type and dates are parsed: a row that fails the filter is not parsed
\* (a parse failure in it does not surface) and is left out of the result
\* with no other effect; only rows that pass it are parsed.
C8_FilterFirst ==
    /\ (pc \in ParsePcs \/ RaisedInRow) => Selected(tr_data)
    /\ (pc = "row_loop" /\ i > 0 /\ ~Selected(soup[i])) =>
          /\ error = NoError
          /\ Len(companies) = Len(SelectedRows(i - 1))
    /\ pc = "done" => Len(companies) = Len(SelectedRows(Len(soup)))

\* The search returned although a row the filter left out has a date that is
\* none and a row has a type that is none.
C8_Witness ==
    /\ pc = "done"
    /\ registration_number = Some("sc")
    /\ soup = <<RowBadIncorporation, RowUnknownType>>
    /\ companies = <<>>

----------------------------------------------------------------------------
(* C9 *)

\* C9 as claimed: name and address have their outer whitespace removed.
C9_Original ==
    BetweenRows =>
        LET rows == SelectedRows(i)
        IN  \A k \in 1..Len(companies) :
              /\ companies[k].primary_name = Strip(TextBefore(rows[k].a, "("))
              /\ companies[k].registered_office_address = Strip(rows[k].li[5])

\* C9, amended: primary_name is the link text before the first "(" and
\* registered_office_address is the text of item 5, both exactly as the page
\* has them: whitespace at either end is kept.
C9_NameAndAddress ==
    BetweenRows =>
        LET rows == SelectedRows(i)
        IN  \A k \in 1..Len(companies) :
              /\ companies[k].primary_name = TextBefore(rows[k].a, "(")
              /\ companies[k].registered_office_address = rows[k].li[5]

\* A name that ends with the space before its "(", and an address with a
\* space at either end.
C9_Witness ==
    /\ pc = "done"
    /\ Len(companies) = 2
    /\ companies[1].primary_name = "ACME CIC "
    /\ companies[2].registered_office_address = " 1 High St "

----------------------------------------------------------------------------
(* C10: the reference lists hold the rows with at least two cells, cell 0   *)
(* as the code and cell 1 as the description; a row with no cell or one     *)
(* cell adds nothing and raises nothing; a code has one description.        *)
C10_ReferenceData ==
    /\ ~(pc = "raised" /\ error.at = "sic_desc_list")
    /\ (InRowLoop \/ pc = "sic_loop") =>
          LET rows == SelectSeq(SubSeq(soup1, 1, j), LAMBDA r : Len(r) >= 2)
          IN  /\ sic_code_list = [k \in 1..Len(rows) |-> rows[k][1]]
              /\ sic_desc_list = [k \in 1..Len(rows) |-> rows[k][2]]

====
